---- MODULE Spec2Model ----
(***************************************************************************)
(* Model of display_watcher/display_watcher.py: Port, Card, enum_cards,    *)
(* Watcher.poll, Watcher.run and main, together with the sysfs tree they   *)
(* read and the operator who may interrupt the process.                    *)
(*                                                                         *)
(* Time is counted in tenths of a second and --polling-rate in tenths of   *)
(* a hertz, so the float 0.2 is the integer 2 in both units.               *)
(***************************************************************************)
EXTENDS Integers, FiniteSets, Sequences, TLC

(* ------------------------------ bounds --------------------------------- *)
MaxTicks == 2          \* scheduled ticks explored
MaxEnvChanges == 2     \* sysfs mutations explored
MaxPollTime == 2       \* longest poll, tenths of a second

(* ----------------------------- constants -------------------------------- *)
DefaultPollingRate == 2                      \* default=0.2
PollingRates == {DefaultPollingRate, 10}     \* -p 0.2 and -p 1.0
None == "None"                               \* Python's None
ActionTimes == {1}                           \* run times of the command
StatusTexts == {"connected", "disconnected", "unknown"}
RootEntries == {"card0", "card1", "card0-HDMI-A-1", "version"}
CardNames == {"card0", "card1"}              \* names DRM_CARD_PATTERN matches
HotplugCards == {"card2"}                    \* a card plugged in after startup
PortNames == {"HDMI-A-1", "DP-1"}            \* suffixes DRM_PORT_PATTERN matches
\* the connectors each card has
Connectors == [c \in CardNames |->
                 IF c = "card0" THEN {"HDMI-A-1", "DP-1"} ELSE {"HDMI-A-1"}]
OtherEntries == {"uevent"}                   \* card children that are no ports
Terminal == {"terminated", "crashed"}

VARIABLES
  fs,             \* sysfs: card -> (port name -> text of its status file)
  root,           \* sysfs: the entries under DRM_PATH
  cards,          \* Watcher._cards: sequence of card names
  ports,          \* Card._ports: card -> (port name -> Port)
  cardChanged,    \* Card._changed
  watcherChanged, \* Watcher._changed
  rate,           \* args.polling_rate
  pc,             \* position in main()/run()
  idx,            \* position of Watcher.poll's for loop in cards
  now,            \* time.monotonic()
  deadline,       \* run()'s deadline
  sleepTime,      \* run()'s sleep_time
  exitCode,       \* process exit status, -1 while running
  messages,       \* termination messages printed
  \* history variables
  deadline0,      \* the deadline set on line 178
  ticks,          \* scheduled polls begun
  tickStart,      \* time the current scheduled tick began
  proc,           \* processing time (poll plus action) of the current tick
  inBound,        \* every tick so far took at most half a period
  pollCount,      \* calls of Watcher.poll
  actionCount,    \* calls of subprocess.run
  tickActions,    \* calls of subprocess.run in the current tick
  outcome,        \* how the last subprocess.run ended
  interruptedAt,  \* where main() was when KeyboardInterrupt was raised, or None
  fault,          \* the exception that left main(): none, read, enum, nostart
  envBudget,      \* sysfs mutations left
  touched,        \* card -> sysfs changed under it since its last update
  pollQuiet,      \* no card of the current poll was touched since last updated
  lastCard,       \* card of the last completed Card.update, or None
  oldPorts,       \* that card's _ports before the update
  lastEnum,       \* the port names that update enumerated
  lastTouched,    \* sysfs had changed under that card since its update before
  lastDiff,       \* that update found the card's tree other than the one before
  seen,           \* card -> its tree as its last completed update found it
  pollSawDiff,    \* an update of the current poll found another tree than before
  pollOrder,      \* the cards the current poll has updated, in order
  prevChanged     \* Watcher._changed as the poll before the current one left it

vars == <<fs, cards, ports, cardChanged, watcherChanged, rate, pc, idx, now,
          deadline, sleepTime, exitCode, messages, deadline0, ticks,
          tickStart, proc, inBound, pollCount, actionCount, tickActions,
          outcome, interruptedAt, fault, envBudget, touched, pollQuiet,
          lastCard, oldPorts, lastEnum, root, lastTouched, lastDiff, seen,
          pollSawDiff, pollOrder, prevChanged>>

progVars == <<cards, ports, cardChanged, watcherChanged, rate, pc, idx, now,
              deadline, sleepTime, exitCode, messages, deadline0, ticks,
              tickStart, proc, inBound, pollCount, actionCount, tickActions,
              outcome, interruptedAt, fault, pollQuiet, lastCard, oldPorts,
              lastEnum, lastTouched, lastDiff, seen, pollSawDiff, pollOrder,
              prevChanged>>

Max(a, b) == IF a >= b THEN a ELSE b
Abs(a) == IF a >= 0 THEN a ELSE 0 - a
Empty == [x \in {} |-> None]

(* ------------------------------- Port ----------------------------------- *)
\* Port.__init__
PortInit == [status |-> None, previous_status |-> None, changed |-> FALSE]

\* Port.update comparing against the status before last
PortUpdate_StalePrevious(port, status_str) ==
  [status |-> status_str, previous_status |-> port.status,
   changed |-> status_str # port.previous_status]

\* Port.update once the read of the status file succeeded
PortUpdate(port, status_str) ==
  LET previous == port.status
  IN  [status |-> status_str, previous_status |-> previous,
       changed |-> status_str # previous]

\* Port.update when open() or readline() raises: only line 48 has run
PortUpdateRaised(port) == [port EXCEPT !.changed = FALSE]

(* ------------------------------- Card ----------------------------------- *)
\* re.match(DRM_PORT_PATTERN, item)
MatchesPortPattern(item) == item \in PortNames

\* os.listdir(self._path)
ListDir(c) == DOMAIN fs[c] \cup OtherEntries

\* Card._enum_ports, as a set
EnumPorts(c) == {item \in ListDir(c) : MatchesPortPattern(item)}

\* Card.update without the `if removed_ports` test
MembershipChanged_AddedOnly(added, removed) == added # {}

\* the two `if added_ports / if removed_ports` tests of Card.update
MembershipChanged(added, removed) == added # {} \/ removed # {}

\* a Card.update that builds every Port anew
Reconciled_Rebuilt(c) == [p \in EnumPorts(c) |-> PortInit]

\* self._ports after the additions and removals of Card.update
Reconciled(c) ==
  LET new == EnumPorts(c)
      cur == DOMAIN ports[c]
      added == new \ cur
      removed == cur \ new
  IN  [p \in (cur \cup added) \ removed |->
         IF p \in cur THEN ports[c][p] ELSE PortInit]

\* a Card.update that updates only the ports it already had
CardPortsAfter_SkipsAdded(c) ==
  LET m == Reconciled(c)
  IN  [p \in DOMAIN m |->
         IF p \in DOMAIN ports[c] THEN PortUpdate(m[p], fs[c][p]) ELSE m[p]]

\* self._ports after a Card.update in which every read succeeded
CardPortsAfter(c) ==
  LET m == Reconciled(c)
  IN  [p \in DOMAIN m |-> PortUpdate(m[p], fs[c][p])]

\* a Card.update without line 87
CardChangedAfter_Sticky(c) ==
  LET new == EnumPorts(c)
      cur == DOMAIN ports[c]
      m == CardPortsAfter(c)
  IN  cardChanged[c]
        \/ MembershipChanged(new \ cur, cur \ new)
        \/ \E p \in DOMAIN m : m[p].changed

\* self._changed after a Card.update in which every read succeeded
CardChangedAfter(c) ==
  LET new == EnumPorts(c)
      cur == DOMAIN ports[c]
      m == CardPortsAfter(c)
  IN  MembershipChanged(new \ cur, cur \ new)
        \/ \E p \in DOMAIN m : m[p].changed

(* --------------------------- enum_cards --------------------------------- *)
\* re.match(DRM_CARD_PATTERN, item)
MatchesCardPattern(item) == item \in CardNames \cup HotplugCards

RECURSIVE SeqOf(_)
SeqOf(S) == IF S = {} THEN <<>>
            ELSE LET x == CHOOSE y \in S : TRUE IN <<x>> \o SeqOf(S \ {x})

\* enum_cards: the matching root entries, in listing order
EnumCards == SeqOf({item \in RootEntries : MatchesCardPattern(item)})

\* a Watcher.poll that lists DRM_PATH again instead of using self._cards
WatcherCards_Rescanned(cs, entries) ==
  SeqOf({item \in entries : MatchesCardPattern(item)})

\* the cards line 158 iterates over: self._cards as __init__ left it
WatcherCards(cs, entries) == cs

(* ----------------------------- scheduler -------------------------------- *)
\* the amount line 185 adds to the deadline
Period(r) == r

\* 1/rate seconds, in tenths of a second
InverseOfRate(r) == 100 \div r

\* line 185 written as deadline = now + period
AdvanceDeadline_Rebased(dl, t, r) == t + Period(r)

\* line 185
AdvanceDeadline(dl, t, r) == dl + Period(r)

\* line 187 without the max
SleepTime_Signed(dl, t) == dl - t

\* line 187
SleepTime(dl, t) == Max(0, dl - t)

\* line 183 with a test that never passes
ShouldInvoke_Never(changed) == FALSE

\* line 183 without the test
ShouldInvoke_Always(changed) == TRUE

\* line 183
ShouldInvoke(changed) == changed

\* Watcher.poll without line 157
PollReset_Sticky(changed) == changed

\* line 157
PollReset(changed) == FALSE

\* an exception swallowed where it is raised
AfterUncaught_Swallowed(p) == p

\* an exception other than KeyboardInterrupt leaves main(): lines 192-196
AfterUncaught(p) == "crashed"

\* subprocess.Popen in place of subprocess.run: run() goes on to line 188
AfterActionStart_Detached(p) == "sleep"

\* line 184: subprocess.run waits for the command
AfterActionStart(p) == "action"

\* a KeyboardInterrupt swallowed inside the loop
AfterInterrupt_Swallowed(p) == p

\* main's `except KeyboardInterrupt`
AfterInterrupt(p) == "terminated"

(* ------------------------------- Init ----------------------------------- *)
InitFs ==
  { [c \in CardNames |-> [p \in {"HDMI-A-1"} |-> "disconnected"]],
    [c \in CardNames |-> IF c = "card0"
                           THEN [p \in Connectors[c] |-> "disconnected"]
                           ELSE Empty] }

Init ==
  /\ fs \in InitFs
  /\ cards = EnumCards
  /\ ports = [c \in CardNames |-> Empty]
  /\ cardChanged = [c \in CardNames |-> FALSE]
  /\ watcherChanged = FALSE
  /\ rate \in PollingRates
  /\ pc = "start"
  /\ idx = 1
  /\ now = 0
  /\ deadline = 0
  /\ sleepTime = 0
  /\ exitCode = -1
  /\ messages = 0
  /\ deadline0 = 0
  /\ ticks = 0
  /\ tickStart = 0
  /\ proc = 0
  /\ inBound = TRUE
  /\ pollCount = 0
  /\ actionCount = 0
  /\ tickActions = 0
  /\ outcome = "none"
  /\ interruptedAt = None
  /\ fault = "none"
  /\ envBudget = MaxEnvChanges
  /\ touched = [c \in CardNames |-> FALSE]
  /\ pollQuiet = TRUE
  /\ lastCard = None
  /\ oldPorts = Empty
  /\ lastEnum = {}
  /\ root = RootEntries
  /\ lastTouched = FALSE
  /\ lastDiff = FALSE
  /\ seen = [c \in CardNames |-> Empty]
  /\ pollSawDiff = FALSE
  /\ pollOrder = <<>>
  /\ prevChanged = FALSE

(* --------------------------- the sysfs tree ----------------------------- *)
Running == pc \notin Terminal

\* The program reads the tree only in Card.update, so a change of the tree
\* is placed right before one of the card updates of a poll: every other
\* step of the program commutes with it.
BeforeCardUpdate == pc \in {"baseline_poll", "tick_poll"} /\ idx <= Len(cards)

\* a connector's status file gets another text
EnvSetStatus ==
  /\ BeforeCardUpdate /\ envBudget > 0
  /\ \E c \in CardNames : \E p \in DOMAIN fs[c] :
       \E s \in StatusTexts \ {fs[c][p]} :
         /\ fs' = [fs EXCEPT ![c] = [fs[c] EXCEPT ![p] = s]]
         /\ touched' = [touched EXCEPT ![c] = TRUE]
  /\ envBudget' = envBudget - 1
  /\ UNCHANGED <<progVars, root>>

\* a connector node appears under a card
EnvAddPort ==
  /\ BeforeCardUpdate /\ envBudget > 0
  /\ \E c \in CardNames : \E p \in Connectors[c] \ DOMAIN fs[c] :
       \E s \in StatusTexts :
         /\ fs' = [fs EXCEPT ![c] =
                     [q \in DOMAIN fs[c] \cup {p} |->
                        IF q = p THEN s ELSE fs[c][q]]]
         /\ touched' = [touched EXCEPT ![c] = TRUE]
  /\ envBudget' = envBudget - 1
  /\ UNCHANGED <<progVars, root>>

\* a connector node disappears from a card
EnvRemovePort ==
  /\ BeforeCardUpdate /\ envBudget > 0
  /\ \E c \in CardNames : \E p \in DOMAIN fs[c] :
         /\ fs' = [fs EXCEPT ![c] = [q \in DOMAIN fs[c] \ {p} |-> fs[c][q]]]
         /\ touched' = [touched EXCEPT ![c] = TRUE]
  /\ envBudget' = envBudget - 1
  /\ UNCHANGED <<progVars, root>>

\* a card node appears under DRM_PATH or disappears from it again
EnvRootChange ==
  /\ BeforeCardUpdate /\ envBudget > 0
  /\ \E c \in HotplugCards :
       root' = IF c \in root THEN root \ {c} ELSE root \cup {c}
  /\ envBudget' = envBudget - 1
  /\ UNCHANGED <<progVars, fs, touched>>

(* ------------------------------ Watcher --------------------------------- *)
envVars == <<fs, root, envBudget>>
clockVars == <<now, deadline, sleepTime, deadline0, tickStart, proc, inBound>>
countVars == <<pollCount, actionCount, tickActions, outcome>>
endVars == <<exitCode, messages, interruptedAt, fault>>
cardVars == <<ports, cardChanged, touched, lastCard, oldPorts, lastEnum,
              lastTouched, lastDiff, seen>>
pollVars == <<pollQuiet, pollSawDiff, pollOrder>>

Polling == pc \in {"baseline_poll", "tick_poll"}

\* run() up to the entry of the baseline poll: lines 164-177 and 157
RunStart ==
  /\ pc = "start"
  /\ pc' = "baseline_poll"
  /\ watcherChanged' = PollReset(watcherChanged)
  /\ idx' = 1
  /\ pollQuiet' = TRUE
  /\ pollSawDiff' = FALSE
  /\ pollOrder' = <<>>
  /\ pollCount' = pollCount + 1
  /\ UNCHANGED <<envVars, clockVars, endVars, cardVars, cards, rate,
                 prevChanged,
                 ticks,
                 actionCount, tickActions, outcome>>

\* one iteration of Watcher.poll's loop: Card.update returns (lines 158-161)
CardUpdate ==
  /\ Polling /\ idx <= Len(cards)
  /\ LET c == cards[idx] IN
       /\ ports' = [ports EXCEPT ![c] = CardPortsAfter(c)]
       /\ cardChanged' = [cardChanged EXCEPT ![c] = CardChangedAfter(c)]
       /\ watcherChanged' = (watcherChanged \/ CardChangedAfter(c))
       /\ pollQuiet' = (pollQuiet /\ ~touched[c])
       /\ touched' = [touched EXCEPT ![c] = FALSE]
       /\ lastCard' = c
       /\ oldPorts' = ports[c]
       /\ lastEnum' = EnumPorts(c)
       /\ lastTouched' = touched[c]
       /\ lastDiff' = (fs[c] # seen[c])
       /\ seen' = [seen EXCEPT ![c] = fs[c]]
       /\ pollSawDiff' = (pollSawDiff \/ fs[c] # seen[c])
       /\ pollOrder' = Append(pollOrder, c)
  /\ idx' = idx + 1
  /\ UNCHANGED <<envVars, clockVars, countVars, endVars, cards, rate,
                 prevChanged,
                 pc,
                 ticks>>

\* one iteration of Watcher.poll's loop in which the read of port q's status
\* file raises: the ports in `done` were updated before it, the OSError
\* leaves Card.update, poll, run and main
CardUpdateReadRaises ==
  /\ Polling /\ idx <= Len(cards)
  /\ LET c == cards[idx]
         m == Reconciled(c)
     IN  \E q \in DOMAIN m : \E done \in SUBSET (DOMAIN m \ {q}) :
           LET after == [p \in DOMAIN m |->
                           IF p \in done THEN PortUpdate(m[p], fs[c][p])
                           ELSE IF p = q THEN PortUpdateRaised(m[p])
                           ELSE m[p]]
           IN  /\ ports' = [ports EXCEPT ![c] = after]
               /\ cardChanged' = [cardChanged EXCEPT ![c] =
                    MembershipChanged(DOMAIN m \ DOMAIN ports[c],
                                      DOMAIN ports[c] \ DOMAIN m)
                      \/ \E p \in done : after[p].changed]
  /\ fault' = "read"
  /\ pc' = AfterUncaught(pc)
  /\ exitCode' = 1
  /\ lastCard' = None /\ oldPorts' = Empty /\ lastEnum' = {}
  /\ lastTouched' = FALSE /\ lastDiff' = FALSE
  /\ UNCHANGED <<envVars, clockVars, countVars, cards, rate,
                 prevChanged,
                 idx,
                 watcherChanged, ticks, messages, interruptedAt, touched,
                 pollVars, seen>>

\* one iteration of Watcher.poll's loop in which os.listdir of the card
\* raises: only line 87 has run
CardUpdateEnumRaises ==
  /\ Polling /\ idx <= Len(cards)
  /\ cardChanged' = [cardChanged EXCEPT ![cards[idx]] = FALSE]
  /\ fault' = "enum"
  /\ pc' = AfterUncaught(pc)
  /\ exitCode' = 1
  /\ lastCard' = None /\ oldPorts' = Empty /\ lastEnum' = {}
  /\ lastTouched' = FALSE /\ lastDiff' = FALSE
  /\ UNCHANGED <<envVars, clockVars, countVars, cards, rate,
                 prevChanged,
                 idx, ports,
                 watcherChanged, ticks, messages, interruptedAt, touched,
                 pollVars, seen>>

\* the baseline poll returns, a tenth of a second after it began; line 178
BaselineDone ==
  /\ pc = "baseline_poll" /\ idx > Len(cards)
  /\ now' = now + 1
  /\ deadline' = now + 1
  /\ deadline0' = now + 1
  /\ pc' = "loop"
  /\ UNCHANGED <<envVars, countVars, endVars, cardVars, cards, rate,
                 prevChanged,
                 idx,
                 watcherChanged, sleepTime, tickStart, proc, inBound, ticks,
                 pollVars>>

\* top of the while loop: line 180, and on a due deadline lines 181-182, 157
LoopTop ==
  /\ pc = "loop" /\ ticks < MaxTicks
  /\ IF now >= deadline
       THEN /\ pc' = "tick_poll"
            /\ watcherChanged' = PollReset(watcherChanged)
            /\ idx' = 1
            /\ pollQuiet' = TRUE
            /\ pollSawDiff' = FALSE
            /\ pollOrder' = <<>>
            /\ prevChanged' = watcherChanged
            /\ pollCount' = pollCount + 1
            /\ ticks' = ticks + 1
            /\ tickStart' = now
            /\ proc' = 0
            /\ tickActions' = 0
            /\ outcome' = "none"
            /\ UNCHANGED sleepTime
       ELSE /\ pc' = "sleep"
            /\ sleepTime' = SleepTime(deadline, now)
            /\ UNCHANGED <<watcherChanged, idx, pollVars, pollCount, ticks,
                           tickStart, proc, tickActions, outcome,
                           prevChanged>>
  /\ cards' = WatcherCards(cards, root)
  /\ UNCHANGED <<envVars, endVars, cardVars, rate, now, deadline,
                 deadline0, inBound, actionCount>>

\* the scheduled poll returns after d tenths of a second
PollDone ==
  /\ pc = "tick_poll" /\ idx > Len(cards)
  /\ \E d \in 1..MaxPollTime :
       /\ now' = now + d
       /\ proc' = proc + d
  /\ pc' = "polled"
  /\ UNCHANGED <<envVars, countVars, endVars, cardVars, cards, rate,
                 prevChanged,
                 idx,
                 watcherChanged, deadline, sleepTime, deadline0, tickStart,
                 inBound, ticks, pollVars>>

\* lines 183, 185, 187 on a tick that found nothing changed
TickNoAction ==
  /\ pc = "polled" /\ ~ShouldInvoke(watcherChanged)
  /\ deadline' = AdvanceDeadline(deadline, now, rate)
  /\ sleepTime' = SleepTime(AdvanceDeadline(deadline, now, rate), now)
  /\ inBound' = (inBound /\ 2 * proc <= Period(rate))
  /\ pc' = "sleep"
  /\ UNCHANGED <<envVars, countVars, endVars, cardVars, cards, rate,
                 prevChanged,
                 idx,
                 watcherChanged, now, deadline0, tickStart, proc, ticks,
                 pollVars>>

\* lines 183-184: subprocess.run starts the command
ActionStart ==
  /\ pc = "polled" /\ ShouldInvoke(watcherChanged)
  /\ actionCount' = actionCount + 1
  /\ tickActions' = tickActions + 1
  /\ outcome' = "running"
  /\ pc' = AfterActionStart(pc)
  /\ UNCHANGED <<envVars, clockVars, endVars, cardVars, cards, rate,
                 prevChanged,
                 idx,
                 watcherChanged, ticks, pollCount, pollVars>>

\* lines 183-184: subprocess.run cannot start the command (no such file,
\* not executable) and raises OSError, which leaves run and main
ActionStartRaises ==
  /\ pc = "polled" /\ ShouldInvoke(watcherChanged)
  /\ actionCount' = actionCount + 1
  /\ tickActions' = tickActions + 1
  /\ outcome' = "nostart"
  /\ fault' = "nostart"
  /\ pc' = AfterUncaught(pc)
  /\ exitCode' = 1
  /\ UNCHANGED <<envVars, clockVars, cardVars, cards, rate,
                 prevChanged,
                 idx,
                 watcherChanged, ticks, pollCount, pollVars, messages,
                 interruptedAt>>

\* subprocess.run returns with exit status rc (check=False); lines 185, 187
ActionReturn ==
  /\ pc = "action"
  /\ \E e \in ActionTimes : \E rc \in {0, 1} :
       /\ now' = now + e
       /\ proc' = proc + e
       /\ outcome' = IF rc = 0 THEN "ok" ELSE "nonzero"
       /\ deadline' = AdvanceDeadline(deadline, now + e, rate)
       /\ sleepTime' = SleepTime(AdvanceDeadline(deadline, now + e, rate),
                                 now + e)
       /\ inBound' = (inBound /\ 2 * (proc + e) <= Period(rate))
  /\ pc' = "sleep"
  /\ UNCHANGED <<envVars, endVars, cardVars, cards, rate,
                 prevChanged,
                 idx,
                 watcherChanged, deadline0, tickStart, ticks, pollCount,
                 actionCount, tickActions, pollVars>>

\* line 188: time.sleep(sleep_time) returns
Sleep ==
  /\ pc = "sleep"
  /\ now' = now + sleepTime
  /\ pc' = "loop"
  /\ UNCHANGED <<envVars, countVars, endVars, cardVars, cards, rate,
                 prevChanged,
                 idx,
                 watcherChanged, deadline, sleepTime, deadline0, tickStart,
                 proc, inBound, ticks, pollVars>>

\* Ctrl-C: KeyboardInterrupt is raised wherever main() is, caught on line 195
Interrupt ==
  /\ Running /\ interruptedAt = None
  /\ interruptedAt' = pc
  /\ pc' = AfterInterrupt(pc)
  /\ messages' = messages + 1
  /\ exitCode' = 0
  /\ UNCHANGED <<envVars, clockVars, countVars, cardVars, cards, rate,
                 prevChanged,
                 idx,
                 watcherChanged, ticks, pollVars, fault>>

Next ==
  \/ EnvSetStatus \/ EnvAddPort \/ EnvRemovePort \/ EnvRootChange
  \/ RunStart \/ CardUpdate \/ CardUpdateReadRaises \/ CardUpdateEnumRaises
  \/ BaselineDone \/ LoopTop \/ PollDone \/ TickNoAction
  \/ ActionStart \/ ActionStartRaises \/ ActionReturn \/ Sleep \/ Interrupt

Spec == Init /\ [][Next]_vars

\* the steps of the process itself when nothing raises
Step ==
  \/ RunStart \/ CardUpdate \/ BaselineDone \/ LoopTop \/ PollDone
  \/ TickNoAction \/ ActionStart \/ ActionReturn \/ Sleep

\* runs without interrupt and without exception
NextLive ==
  \/ EnvSetStatus \/ EnvAddPort \/ EnvRemovePort \/ EnvRootChange
  \/ Step

\* the single thread keeps running, time.sleep and the command return
LiveSpec == Init /\ [][NextLive]_vars /\ WF_vars(Step)

TypeOK ==
  /\ pc \in {"start", "baseline_poll", "loop", "tick_poll", "polled",
             "action", "sleep", "terminated", "crashed"}
  /\ \A c \in CardNames : DOMAIN ports[c] \subseteq PortNames
  /\ sleepTime >= 0
  /\ ticks \in 0..MaxTicks

(* ------------------------------ properties ------------------------------ *)
Updated == lastCard # None
NewPorts == ports[lastCard]
Retained == DOMAIN oldPorts \cap lastEnum
SymDiff(A, B) == (A \ B) \cup (B \ A)
TickIndex == ticks - 1
Deviation == Abs(tickStart - (deadline0 + TickIndex * Period(rate)))

\* C1 as stated: after Port.update the changed flag is true iff the status
\* read differs from the status held before, a first-ever read being
\* compared against "unknown".
C1_FirstReadAgainstUnknown ==
  Updated =>
    \A p \in DOMAIN NewPorts :
      NewPorts[p].changed <=>
        (NewPorts[p].status #
           (IF p \in DOMAIN oldPorts THEN oldPorts[p].status ELSE "unknown"))

\* C1 amended: after Port.update the changed flag is true iff the status
\* read differs from the status held before, a first-ever read being
\* compared against the never-read value None, which differs from every
\* text a status file can hold, "unknown" included.
C1_ChangedIffStatusDiffers ==
  Updated =>
    \A p \in DOMAIN NewPorts :
      /\ NewPorts[p].changed <=>
           (NewPorts[p].status #
              (IF p \in DOMAIN oldPorts THEN oldPorts[p].status ELSE None))
      /\ p \notin DOMAIN oldPorts => NewPorts[p].changed

C1_Witness ==
  /\ Updated
  /\ \E p \in DOMAIN NewPorts \ DOMAIN oldPorts :
       NewPorts[p].status = "unknown" /\ NewPorts[p].changed
  /\ \E q \in DOMAIN NewPorts \cap DOMAIN oldPorts : ~NewPorts[q].changed

\* C2: after Card.update the card's changed flag is true iff the port names
\* of this tick and of the previous tick differ as sets or a retained port's
\* changed flag is true.
C2_CardChangedIffMembershipOrPort ==
  Updated =>
    (cardChanged[lastCard] <=>
       (SymDiff(DOMAIN oldPorts, lastEnum) # {}
          \/ \E p \in Retained : NewPorts[p].changed))

\* a connector node disappeared and no remaining port changed status
C2_Witness ==
  /\ Updated
  /\ DOMAIN oldPorts \ lastEnum # {}
  /\ Retained # {}
  /\ \A p \in Retained : ~NewPorts[p].changed
  /\ cardChanged[lastCard]

\* C3: a scheduled poll before which no card's listing or status files
\* changed since that card's previous update leaves Watcher.changed false.
C3_QuietPollReportsNothing ==
  (ticks >= 1 /\ pc \in {"polled", "action", "sleep"} /\ pollQuiet)
    => ~watcherChanged

C3_Witness ==
  /\ ticks >= 2 /\ pc = "polled" /\ pollQuiet /\ ~watcherChanged
  /\ \A c \in CardNames : ports[c] # Empty

\* C4: a scheduled tick invokes the action once if its poll found a change
\* and not at all otherwise, and the baseline poll never invokes it.
C4_ActionOncePerChangedTick ==
  /\ tickActions \in {0, 1}
  /\ ticks = 0 => actionCount = 0
  /\ pc = "action" => (watcherChanged /\ tickActions = 1)
  /\ pc = "sleep" => (tickActions = 1 <=> watcherChanged)

\* the first scheduled tick found nothing, a later one invoked the action
C4_Witness ==
  /\ pc = "sleep" /\ ticks >= 2 /\ watcherChanged
  /\ tickActions = 1 /\ actionCount = 1

\* C5 as stated: a failed read of a status file does not abort the tick and
\* the loop continues.
C5_ReadFailureIsRecovered == fault = "read" => pc # "crashed"

\* C6 as stated: each scheduled tick advances the deadline by 1/rate seconds.
C6_PeriodIsInverseOfRate ==
  pc = "sleep" => deadline = deadline0 + ticks * InverseOfRate(rate)

\* C7: while every tick's poll and action take at most half a period, the
\* k-th scheduled tick starts less than that tick's processing time away
\* from the initial deadline plus k periods.
C7_NoDriftWithinBound ==
  (pc = "sleep" /\ ticks >= 1 /\ inBound) => Deviation < proc

C7_Witness ==
  /\ pc = "sleep" /\ ticks >= 2 /\ inBound /\ actionCount >= 1
  /\ tickStart = deadline0 + TickIndex * Period(rate)

\* C8: once a KeyboardInterrupt is delivered the process has ended with one
\* termination message and exit status 0, and no poll, card update or
\* action follows.
C8_InterruptStopsTheLoop ==
  /\ [](interruptedAt # None =>
          (pc = "terminated" /\ messages = 1 /\ exitCode = 0))
  /\ [](interruptedAt = None => messages = 0)
  /\ [][interruptedAt # None =>
          UNCHANGED <<pollCount, actionCount, ports, now, deadline>>]_vars

\* the interrupt arrived while the loop was asleep before a tick
C8_Witness ==
  /\ interruptedAt = "sleep" /\ sleepTime > 0 /\ pc = "terminated"
  /\ ticks < MaxTicks

\* C9 as stated: an action that cannot be started or that exits non-zero
\* does not end the process, and the deadline is advanced for that tick.
C9_ActionFailureIsNonFatal ==
  /\ fault = "nostart" => pc # "crashed"
  /\ (pc = "sleep" /\ outcome = "nonzero")
       => deadline = deadline0 + ticks * Period(rate)

\* C10: after k scheduled ticks the deadline is the initial deadline plus k
\* periods; the sleep is never negative and is 0 when the deadline has
\* passed; the next tick starts at the deadline or, after an overrun, at
\* once.
C10_AdditiveDeadline ==
  /\ pc \in {"sleep", "loop"} => deadline = deadline0 + ticks * Period(rate)
  /\ sleepTime >= 0
  /\ pc = "sleep" => sleepTime = (IF deadline <= now THEN 0 ELSE deadline - now)
  /\ (pc = "loop" /\ ticks >= 1) => now = Max(deadline, tickStart + proc)

\* a tick overran its period and the next one is due at once
C10_Witness ==
  /\ pc = "loop" /\ ticks >= 2 /\ now > deadline
  /\ deadline = deadline0 + ticks * Period(rate)

\* C11: a scheduled poll before which nothing changed under any card leaves
\* the changed flag false at port, card and watcher level, whatever the
\* poll before it reported.
C11_ChangedNeverSticky ==
  (ticks >= 1 /\ pc \in {"polled", "action", "sleep"} /\ pollQuiet) =>
    /\ ~watcherChanged
    /\ \A c \in CardNames :
         /\ ~cardChanged[c]
         /\ \A p \in DOMAIN ports[c] : ~ports[c][p].changed

\* nothing changed on this tick and the poll before it had reported a change
C11_Witness ==
  /\ ticks >= 1 /\ pc = "polled" /\ pollQuiet /\ prevChanged
  /\ ~watcherChanged
  /\ \E c \in CardNames : ports[c] # Empty

\* C12: after a completed Card.update the keys of the port map are the
\* names enumerated on that tick, and every port of the map holds the text
\* read on this tick with the status it had before as previous status, that
\* is, it was updated once; none is left never read.
C12_PortMapMatchesEnumeration ==
  Updated =>
    /\ DOMAIN NewPorts = lastEnum
    /\ \A p \in DOMAIN NewPorts :
         /\ NewPorts[p].status # None
         /\ NewPorts[p].status = seen[lastCard][p]
         /\ NewPorts[p].previous_status =
              (IF p \in DOMAIN oldPorts THEN oldPorts[p].status ELSE None)

\* one update both added and removed a port
C12_Witness ==
  /\ Updated
  /\ lastEnum \ DOMAIN oldPorts # {}
  /\ DOMAIN oldPorts \ lastEnum # {}
  /\ DOMAIN NewPorts = lastEnum

\* C13: when os.listdir of a card raises during a poll the process ends
\* with a failure status, the action is not invoked on that tick, and no
\* poll, tick or action follows.
C13_EnumerationFailureIsFatal ==
  /\ [](fault = "enum" =>
          (pc = "crashed" /\ exitCode = 1 /\ tickActions = 0))
  /\ [][fault = "enum" =>
          UNCHANGED <<pollCount, actionCount, ticks, ports>>]_vars

\* the second card could not be listed after the first had reported a change
C13_Witness ==
  /\ fault = "enum" /\ pc = "crashed" /\ ticks >= 1
  /\ idx = 2 /\ watcherChanged /\ tickActions = 0

\* C14: while the command runs no poll begins, no port is updated, no other
\* command is started and the deadline stays as it is.
C14_ActionIsSynchronous ==
  /\ [](outcome = "running" => pc \in {"action", "terminated"})
  /\ [][outcome = "running" =>
          /\ UNCHANGED <<pollCount, actionCount, ports>>
          /\ outcome' = "running" => deadline' = deadline]_vars

\* the command of a second changed tick is running after the first returned
C14_Witness ==
  pc = "action" /\ outcome = "running" /\ actionCount = 2 /\ ticks = 2

\* C15: the Watcher's cards are those enum_cards found at construction, in
\* that order, whatever appears under DRM_PATH later, and every poll
\* updates all of them in that order.
C15_CardsFixedAtConstruction ==
  /\ [](cards = EnumCards)
  /\ [](Polling => pollOrder = SubSeq(cards, 1, idx - 1))
  /\ [](pc \in {"loop", "polled", "action", "sleep"} => pollOrder = cards)
  /\ [][cards' = cards]_vars

\* a card appeared under DRM_PATH and the poll still updated the two cards
C15_Witness ==
  /\ root # RootEntries /\ pc = "polled" /\ ticks >= 1
  /\ pollOrder = cards /\ Len(cards) = 2

\* C16: in runs without interrupt or exception, a scheduled tick whose poll
\* found some card's tree other than that card's update before found it
\* reports a change and invokes the command before it sleeps, and the
\* scheduled ticks go on: every one of them is begun and completed.
C16_ChangeLeadsToAction ==
  /\ [](pc = "polled" /\ pollSawDiff => watcherChanged)
  /\ [](pc = "sleep" /\ pollSawDiff => tickActions = 1)
  /\ <>(ticks = MaxTicks /\ pc = "loop")

\* a change was found on the second tick and the command is running
C16_Witness ==
  /\ pc = "action" /\ pollSawDiff /\ ticks = 2 /\ tickActions = 1
  /\ ~prevChanged

\* C17: an update that finds a card's tree as its update before found it,
\* although the tree changed in between, reports no change for the card or
\* any of its ports, and a tick whose updates all found the trees as
\* before does not invoke the command.
C17_RevertedChangesInvisible ==
  /\ (Updated /\ lastTouched /\ ~lastDiff) =>
       /\ ~cardChanged[lastCard]
       /\ \A p \in DOMAIN NewPorts : ~NewPorts[p].changed
  /\ (pc \in {"polled", "sleep"} /\ ticks >= 1 /\ ~pollSawDiff) =>
       (~watcherChanged /\ tickActions = 0)

\* a port flapped or vanished and came back between two updates of its card
C17_Witness ==
  /\ Updated /\ lastTouched /\ ~lastDiff /\ ticks >= 1
  /\ NewPorts # Empty /\ pc = "sleep" /\ ~pollSawDiff /\ tickActions = 0

====
